---- MODULE Spec2Model ----
(***************************************************************************)
(* go-qase-testing-reporter: reading a `go test -json` report line by      *)
(* line, extracting the QASE-<digits> case identifiers of the test names,  *)
(* accumulating the results and reporting them to Qase as one test run.    *)
(*                                                                         *)
(* Strings that the program inspects character by character (test names)   *)
(* are sequences of one-character strings; all other strings are atoms.    *)
(***************************************************************************)
EXTENDS Integers, Sequences, FiniteSets, TLC

VARIABLES
    pc,                    \* position of RunCommand / processFile
    args,                  \* the command line: the --version flag, whether a filename is given
    file,                  \* the file named on the command line: whether it opens, its lines, how reading ends
    pos,                   \* number of lines the scanner has delivered
    results,               \* processFile: results []ReportResult
    fileErr,               \* processFile: the error it returned (Nil if none)
    calls,                 \* the Qase API calls made so far, with their arguments and outcome
    runId,                 \* RunCommand: id
    testRunResultOutputs,  \* RunCommand: testRunResultOutputs
    stdout,                \* the JSON objects printed by printOutput
    call                   \* a direct call of one function: [op, arg, ret]

vars == <<pc, args, file, pos, results, fileErr, calls, runId, testRunResultOutputs, stdout, call>>

Nil == "nil"

-----------------------------------------------------------------------------
(* Bounds of the model                                                     *)

\* test names are concatenations of at most MaxTokens tokens
MaxTokens == 4
\* files of the enumerated kind hold at most MaxLines lines
MaxLines == 3
\* lines that follow the long run of valid lines in a file that fills the batch
MaxTail == 2

-----------------------------------------------------------------------------
(* Characters and test names                                               *)

Digits == {"0", "1", "2", "3", "4", "5", "6", "7", "8", "9"}

DigitVal(c) ==
    CASE c = "0" -> 0 [] c = "1" -> 1 [] c = "2" -> 2 [] c = "3" -> 3
      [] c = "4" -> 4 [] c = "5" -> 5 [] c = "6" -> 6 [] c = "7" -> 7
      [] c = "8" -> 8 [] c = "9" -> 9

\* the literal part of the pattern `QASE-(\d+)`
TagPrefix == <<"Q", "A", "S", "E", "-">>

\* a digit group no machine integer holds (20 digits > 2^63 - 1)
HugeDigits == [i \in 1..20 |-> "9"]

\* the least digit group beyond int: 2^63 = 9223372036854775808
OverMaxDigits ==
    <<"9","2","2","3","3","7","2","0","3","6","8","5","4","7","7","5","8","0","8">>

Tokens ==
    { TagPrefix,
      TagPrefix \o <<"1">>,
      TagPrefix \o <<"2">>,
      <<"0">>,
      <<"3">>,
      <<"/">>,
      <<"Q">>,
      HugeDigits,
      OverMaxDigits }

RECURSIVE Concat(_)
Concat(ts) == IF ts = <<>> THEN <<>> ELSE Head(ts) \o Concat(Tail(ts))

TokenSeqs == UNION { [1..n -> Tokens] : n \in 0..MaxTokens }

Names == { Concat(ts) : ts \in TokenSeqs }

-----------------------------------------------------------------------------
(* regexp.MustCompile(`QASE-(\d+)`).FindAllStringSubmatch(test, -1)        *)

HasPrefixAt(s, i, p) ==
    /\ i + Len(p) - 1 <= Len(s)
    /\ \A j \in 1..Len(p) : s[i + j - 1] = p[j]

\* the first index after the run of digits that starts at i (greedy \d+)
RECURSIVE DigitRunEnd(_, _)
DigitRunEnd(s, i) ==
    IF i <= Len(s) /\ s[i] \in Digits THEN DigitRunEnd(s, i + 1) ELSE i

\* leftmost match first, the search resumes where the match ended; each
\* match is <<whole match, digit group>>
RECURSIVE FindAllFrom(_, _)
FindAllFrom(s, i) ==
    IF i > Len(s) THEN <<>>
    ELSE IF HasPrefixAt(s, i, TagPrefix)
            /\ i + Len(TagPrefix) <= Len(s)
            /\ s[i + Len(TagPrefix)] \in Digits
         THEN LET e == DigitRunEnd(s, i + Len(TagPrefix))
              IN  <<  <<SubSeq(s, i, e - 1), SubSeq(s, i + Len(TagPrefix), e - 1)>>  >>
                      \o FindAllFrom(s, e)
         ELSE FindAllFrom(s, i + 1)

\* a matcher that stops the digit group after one digit (`\d` for `\d+`)
FindAllOneDigit(s) ==
    LET F[i \in 1..(Len(s) + 1)] ==
            IF i > Len(s) THEN <<>>
            ELSE IF HasPrefixAt(s, i, TagPrefix)
                    /\ i + Len(TagPrefix) <= Len(s)
                    /\ s[i + Len(TagPrefix)] \in Digits
                 THEN <<  <<SubSeq(s, i, i + Len(TagPrefix)),
                            SubSeq(s, i + Len(TagPrefix), i + Len(TagPrefix))>>  >>
                          \o F[i + Len(TagPrefix) + 1]
                 ELSE F[i + 1]
    IN  F[1]

FindAllStringSubmatch(s) == FindAllFrom(s, 1)

-----------------------------------------------------------------------------
(* strconv.Atoi on a 64-bit int                                            *)

\* 9223372036854775807
MaxIntDigits ==
    <<"9","2","2","3","3","7","2","0","3","6","8","5","4","7","7","5","8","0","7">>

RECURSIVE StripZeros(_)
StripZeros(d) ==
    IF Len(d) > 0 /\ Head(d) = "0" THEN StripZeros(Tail(d)) ELSE d

\* a < b for digit strings of equal length
RECURSIVE DigitsLess(_, _)
DigitsLess(a, b) ==
    IF a = <<>> THEN FALSE
    ELSE IF DigitVal(Head(a)) # DigitVal(Head(b))
         THEN DigitVal(Head(a)) < DigitVal(Head(b))
         ELSE DigitsLess(Tail(a), Tail(b))

RECURSIVE DigitsValue(_)
DigitsValue(d) ==
    IF d = <<>> THEN 0
    ELSE 10 * DigitsValue(SubSeq(d, 1, Len(d) - 1)) + DigitVal(d[Len(d)])

OutOfRange(d) ==
    LET t == StripZeros(d)
    IN  \/ Len(t) > Len(MaxIntDigits)
        \/ Len(t) = Len(MaxIntDigits) /\ DigitsLess(MaxIntDigits, t)

\* a conversion that knows no range error: it answers 0 for a number
\* beyond int
AtoiNoRangeError(d) ==
    IF d = <<>> \/ \E i \in 1..Len(d) : d[i] \notin Digits
    THEN [val |-> 0, err |-> "ErrSyntax"]
    ELSE [val |-> IF OutOfRange(d) THEN 0 ELSE DigitsValue(StripZeros(d)), err |-> Nil]

Atoi(d) ==
    IF d = <<>> \/ \E i \in 1..Len(d) : d[i] \notin Digits
    THEN [val |-> 0, err |-> "ErrSyntax"]
    ELSE IF OutOfRange(d)
         THEN [val |-> 0, err |-> "ErrRange"]
         ELSE [val |-> DigitsValue(StripZeros(d)), err |-> Nil]

-----------------------------------------------------------------------------
(* ParseQaseId                                                             *)

\* takes the first match instead of the last
ParseQaseIdFirst(test) ==
    LET matches == FindAllStringSubmatch(test)
    IN  IF Len(matches) = 0 THEN [id |-> 0, err |-> Nil]
        ELSE LET a == Atoi(matches[1][2])
             IN  IF a.err # Nil
                 THEN [id |-> 0, err |-> "failed to parse Qase ID"]
                 ELSE [id |-> a.val, err |-> Nil]

ParseQaseId(test) ==
    LET matches == FindAllStringSubmatch(test)
    IN  IF Len(matches) = 0 THEN [id |-> 0, err |-> Nil]
        ELSE LET lastMatch == matches[Len(matches)]
                 a == Atoi(lastMatch[2])
             IN  IF a.err # Nil
                 THEN [id |-> 0, err |-> "failed to parse Qase ID"]
                 ELSE [id |-> a.val, err |-> Nil]

-----------------------------------------------------------------------------
(* Report lines and json.Unmarshal into ReportJsonLine                     *)
(*                                                                         *)
(* A line is either text that is no JSON object, or an object; `has` is    *)
(* the set of members the object carries, `typed` is FALSE when a member   *)
(* has a value of the wrong JSON type.  Elapsed is in microseconds.        *)

GoodTime == "2024-05-27T19:58:10+07:00"
BadTime  == "27/05/2024 19:58"
TestPackage == "github.com/test"

TextLine ==
    [kind |-> "text", typed |-> TRUE, has |-> {}, time |-> "", test |-> <<>>,
     action |-> "", package |-> "", elapsed |-> 0]

ObjectLine(has, time, test, action, package, elapsed) ==
    [kind |-> "object", typed |-> TRUE, has |-> has, time |-> time, test |-> test,
     action |-> action, package |-> package, elapsed |-> elapsed]

\* the zero value of ReportJsonLine
ZeroContent ==
    [Time |-> "", Test |-> <<>>, Action |-> "", Package |-> "", Elapsed |-> 0]

Unmarshal(line) ==
    IF line.kind # "object" THEN [content |-> ZeroContent, err |-> "SyntaxError"]
    ELSE IF ~line.typed THEN [content |-> ZeroContent, err |-> "UnmarshalTypeError"]
    ELSE [content |->
            [Time    |-> IF "time" \in line.has THEN line.time ELSE "",
             Test    |-> IF "test" \in line.has THEN line.test ELSE <<>>,
             Action  |-> IF "action" \in line.has THEN line.action ELSE "",
             Package |-> IF "package" \in line.has THEN line.package ELSE "",
             Elapsed |-> IF "elapsed" \in line.has THEN line.elapsed ELSE 0],
          err |-> Nil]

-----------------------------------------------------------------------------
(* time.Parse(time.RFC3339, s) followed by UTC()                           *)

\* the zero value of time.Time
ZeroTime == [set |-> FALSE, unix |-> 0, zone |-> 0]

\* seconds since the epoch of 2024-05-27T12:58:10Z
GoodTimeUnix == 1716814690

\* a parser that knows no zone offset but Z
TimeParseNoOffset(s) == [t |-> ZeroTime, err |-> "ParseError"]

TimeParse(s) ==
    IF s = GoodTime
    THEN [t |-> [set |-> TRUE, unix |-> GoodTimeUnix, zone |-> 7], err |-> Nil]
    ELSE [t |-> ZeroTime, err |-> "ParseError"]

UTC(t) == [t EXCEPT !.zone = 0]

-----------------------------------------------------------------------------
(* processLine                                                             *)

TEST_CASE_RESULT_STATUS_PASSED == "passed"

\* the action word in place of the status word
StatusFailedAsAction == "fail"

TEST_CASE_RESULT_STATUS_FAILED == "failed"

\* the zero value of ReportResult
ZeroResult ==
    [Package |-> "", TestCaseId |-> 0, Status |-> "", Time |-> ZeroTime, TimeMs |-> 0]

\* rounds to the nearest millisecond instead of truncating
ElapsedMsRounded(elapsed) == (elapsed + 500) \div 1000

\* int64(content.Elapsed * 1000), Elapsed in seconds, here in microseconds
ElapsedMs(elapsed) == elapsed \div 1000

\* takes every action but "fail" for a pass
FillResultDefaultPass(content, line, result) ==
    LET r1 == [result EXCEPT !.Status = IF content.Action = "fail"
                                         THEN TEST_CASE_RESULT_STATUS_FAILED
                                         ELSE TEST_CASE_RESULT_STATUS_PASSED]
        parsed == TimeParse(content.Time)
    IN  IF content.Time # "" /\ parsed.err # Nil
        THEN [result |-> [r1 EXCEPT !.Time = parsed.t], err |-> "failed to parse time"]
        ELSE [result |-> [r1 EXCEPT !.Time = IF content.Time # "" THEN UTC(parsed.t) ELSE @,
                                    !.TimeMs = ElapsedMs(content.Elapsed),
                                    !.Package = content.Package],
              err |-> Nil]

\* the assignments of processLine after the Qase id was found
FillResult(content, line, result) ==
    LET withStatus ==
            IF content.Action = "fail"
            THEN [r |-> [result EXCEPT !.Status = TEST_CASE_RESULT_STATUS_FAILED], err |-> Nil]
            ELSE IF content.Action = "pass"
            THEN [r |-> [result EXCEPT !.Status = TEST_CASE_RESULT_STATUS_PASSED], err |-> Nil]
            ELSE [r |-> result, err |-> "unknown action"]
    IN  IF withStatus.err # Nil THEN [result |-> withStatus.r, err |-> withStatus.err]
        ELSE LET parsed == TimeParse(content.Time)
                 r1 == withStatus.r
             IN  IF content.Time # "" /\ parsed.err # Nil
                 THEN [result |-> [r1 EXCEPT !.Time = parsed.t], err |-> "failed to parse time"]
                 ELSE LET r2 == IF content.Time # ""
                                THEN [r1 EXCEPT !.Time = UTC(parsed.t)] ELSE r1
                          r3 == IF content.Elapsed # 0
                                THEN [r2 EXCEPT !.TimeMs = ElapsedMs(content.Elapsed)] ELSE r2
                          r4 == IF content.Package # ""
                                THEN [r3 EXCEPT !.Package = content.Package] ELSE r3
                      IN  [result |-> r4, err |-> Nil]

processLine(line) ==
    LET u == Unmarshal(line)
        content == u.content
    IN  IF u.err # Nil THEN [result |-> ZeroResult, err |-> "failed to parse line"]
        ELSE IF content.Test = <<>> THEN [result |-> ZeroResult, err |-> "no test name found in line"]
        ELSE LET q == ParseQaseId(content.Test)
             IN  IF q.err # Nil
                 THEN [result |-> ZeroResult, err |-> "failed to parse Qase ID in line"]
                 ELSE IF q.id = 0
                 THEN [result |-> ZeroResult, err |-> "no Qase ID found in test name"]
                 ELSE FillResult(content, line, [ZeroResult EXCEPT !.TestCaseId = q.id])

\* what processLine prints on standard output: for a non-zero Elapsed, the
\* elapsed time (here in microseconds), then the milliseconds
ElapsedPrints(line) ==
    LET r == processLine(line)
        content == Unmarshal(line).content
    IN  IF r.err = Nil /\ content.Elapsed # 0
        THEN << [kind |-> "Elapsed", value |-> content.Elapsed],
                [kind |-> "Elapsed", value |-> r.result.TimeMs] >>
        ELSE <<>>

-----------------------------------------------------------------------------
(* ParseQaseIds and processLineWithMultipleId: called by main_test.go, not *)
(* defined in the sources at hand; written from the specification          *)
(* (IdentifierExtractor, LineParser, ResultProjector).                     *)

\* every digit group of the name fits the machine integer
GroupsInRange(test) ==
    LET matches == FindAllStringSubmatch(test)
    IN  \A i \in 1..Len(matches) : ~OutOfRange(matches[i][2])

ParseQaseIds(test) ==
    LET matches == FindAllStringSubmatch(test)
    IN  [ids |-> [i \in 1..Len(matches) |-> DigitsValue(matches[i][2])], err |-> Nil]

processLineWithMultipleId(line) ==
    LET u == Unmarshal(line)
        content == u.content
    IN  IF u.err # Nil THEN [results |-> <<>>, err |-> "DecodeError"]
        ELSE IF content.Test = <<>> THEN [results |-> <<>>, err |-> "ValidationError"]
        ELSE IF content.Action \notin {"pass", "fail"}
        THEN [results |-> <<>>, err |-> "ValidationError"]
        ELSE IF content.Time # "" /\ TimeParse(content.Time).err # Nil
        THEN [results |-> <<>>, err |-> "DecodeError"]
        ELSE LET ids == ParseQaseIds(content.Test).ids
             IN  [results |->
                    [i \in 1..Len(ids) |->
                        FillResult(content, line, [ZeroResult EXCEPT !.TestCaseId = ids[i]]).result],
                  err |-> Nil]

-----------------------------------------------------------------------------
(* The lines of the model                                                  *)

Tag(d) == TagPrefix \o d

\* the test names of report lines
LineNames ==
    { <<>>,
      <<"/">>,
      TagPrefix,
      Tag(<<"1">>),
      Tag(<<"0">>),
      Tag(HugeDigits),
      <<"/">> \o Tag(<<"1">>) \o <<"/">> \o Tag(<<"2">>),
      Tag(<<"2">>) \o <<"/">> \o Tag(<<"1">>) \o <<"/">> \o Tag(<<"2">>),
      Tag(<<"1", "2">>) \o Tag(<<"0">>) }

LineActions == {"pass", "fail", "skip", "output"}

\* elapsed times in microseconds: 10 s and 1.5 ms
LineElapsed == {10000000, 1500}

Members == {"time", "test", "action", "package", "elapsed"}

\* every object line of the model: which members it has, and their values
ObjectLines ==
    { ObjectLine(has, time, test, action, TestPackage, elapsed) :
        has \in { h \in SUBSET Members : "test" \in h \/ h = {"action", "package"} },
        time \in {GoodTime, BadTime},
        test \in LineNames \ {<<>>},
        action \in LineActions,
        elapsed \in LineElapsed }

\* a canonical form: a member the object lacks has the zero value
Canonical(l) ==
    [l EXCEPT !.time = IF "time" \in l.has THEN l.time ELSE "",
              !.test = IF "test" \in l.has THEN l.test ELSE <<>>,
              !.action = IF "action" \in l.has THEN l.action ELSE "",
              !.package = IF "package" \in l.has THEN l.package ELSE "",
              !.elapsed = IF "elapsed" \in l.has THEN l.elapsed ELSE 0]

Lines ==
    { Canonical(l) : l \in ObjectLines }
    \cup { TextLine,
           [ObjectLine(Members, GoodTime, Tag(<<"1">>), "pass", TestPackage, 0)
                EXCEPT !.typed = FALSE],
           ObjectLine({"test", "action"}, "", <<>>, "pass", "", 0) }

-----------------------------------------------------------------------------
(* Direct calls of the functions, as the tests make them                   *)

Idle ==
    /\ pc = "call"
    /\ args = [version |-> FALSE, named |-> FALSE]
    /\ file = [open |-> FALSE, lines |-> <<>>, ends |-> "eof"]
    /\ pos = 0
    /\ results = <<>>
    /\ fileErr = Nil
    /\ calls = <<>>
    /\ runId = 0
    /\ testRunResultOutputs = <<>>
    /\ stdout = <<>>

IdleUnchanged ==
    UNCHANGED <<pc, args, file, pos, results, fileErr, calls, runId, testRunResultOutputs, stdout>>

InitParse ==
    /\ Idle
    /\ \E s \in Names : call = [op |-> "none", arg |-> s, ret |-> Nil]

CallParseQaseId ==
    /\ pc = "call" /\ call.op = "none"
    /\ call.arg \in Names
    /\ call' = [call EXCEPT !.op = "ParseQaseId", !.ret = ParseQaseId(call.arg)]
    /\ IdleUnchanged

CallParseQaseIds ==
    /\ pc = "call" /\ call.op = "none"
    /\ call.arg \in Names
    /\ GroupsInRange(call.arg)
    /\ call' = [call EXCEPT !.op = "ParseQaseIds", !.ret = ParseQaseIds(call.arg)]
    /\ IdleUnchanged

NextParse == CallParseQaseId \/ CallParseQaseIds

SpecParse == InitParse /\ [][NextParse]_vars

InitLine ==
    /\ Idle
    /\ \E l \in Lines : call = [op |-> "none", arg |-> l, ret |-> Nil]

CallProcessLine ==
    /\ pc = "call" /\ call.op = "none"
    /\ call.arg \in Lines
    /\ call' = [call EXCEPT !.op = "processLine", !.ret = processLine(call.arg)]
    /\ IdleUnchanged

CallProcessLineWithMultipleId ==
    /\ pc = "call" /\ call.op = "none"
    /\ call.arg \in Lines
    /\ GroupsInRange(call.arg.test)
    /\ call' = [call EXCEPT !.op = "processLineWithMultipleId",
                            !.ret = processLineWithMultipleId(call.arg)]
    /\ IdleUnchanged

NextLine == CallProcessLine \/ CallProcessLineWithMultipleId

SpecLine == InitLine /\ [][NextLine]_vars

-----------------------------------------------------------------------------
(* The report files of the model                                           *)

\* There is a max of 2000 result per bulk request API
MaxBulkRequest == 2000

\* the texts of the lines a file may hold
RawLines ==
    {"garbage", "notest", "noid", "p1", "f1", "p12", "skip1", "badtime2", "zero", "huge"}

\* the decimal digits of n
RECURSIVE DigitsOf(_)
DigitsOf(n) ==
    IF n < 10 THEN << <<"0", "1", "2", "3", "4", "5", "6", "7", "8", "9">>[n + 1] >>
    ELSE Append(DigitsOf(n \div 10),
                <<"0", "1", "2", "3", "4", "5", "6", "7", "8", "9">>[(n % 10) + 1])

\* the text of a line that reports a passed test named QASE-<i>
UniqueRaw(i) == "u" \o ToString(i)

\* the case number in each such text
UniqueOf ==
    LET raws == [i \in 1..(MaxBulkRequest + MaxTail) |-> UniqueRaw(i)]
    IN  [r \in { raws[i] : i \in DOMAIN raws } |-> CHOOSE i \in DOMAIN raws : raws[i] = r]

\* the JSON value each text denotes
JSONOf(raw) ==
    CASE raw = "garbage"  -> TextLine
      [] raw = "notest"   -> ObjectLine({"time", "action", "package"}, GoodTime, <<>>,
                                        "pass", TestPackage, 0)
      [] raw = "noid"     -> ObjectLine({"time", "test", "action", "package"}, GoodTime,
                                        <<"/">>, "pass", TestPackage, 0)
      [] raw = "p1"       -> ObjectLine(Members, GoodTime, Tag(<<"1">>),
                                        "pass", TestPackage, 10000000)
      [] raw = "f1"       -> ObjectLine({"test", "action"}, "", Tag(<<"1">>), "fail", "", 0)
      [] raw = "p12"      -> ObjectLine({"test", "action", "package"}, "",
                                        <<"/">> \o Tag(<<"1">>) \o <<"/">> \o Tag(<<"2">>),
                                        "pass", TestPackage, 0)
      [] raw = "skip1"    -> ObjectLine({"test", "action"}, "", Tag(<<"1">>), "skip", "", 0)
      [] raw = "badtime2" -> ObjectLine({"time", "test", "action"}, BadTime, Tag(<<"2">>),
                                        "pass", "", 0)
      [] raw = "zero"     -> ObjectLine({"test", "action"}, "", Tag(<<"0">>), "pass", "", 0)
      [] raw = "huge"     -> ObjectLine({"test", "action"}, "", Tag(HugeDigits), "pass", "", 0)
      [] OTHER            -> ObjectLine({"test", "action"}, "", Tag(DigitsOf(UniqueOf[raw])),
                                        "pass", "", 0)

SeqsUpTo(S, n) == UNION { [1..k -> S] : k \in 0..n }

\* short files of every make-up
ShortFiles ==
    { [open |-> TRUE, lines |-> ls, ends |-> e] :
        ls \in SeqsUpTo(RawLines, MaxLines), e \in {"eof", "error"} }

\* files long enough to fill a bulk request: all but one of the entries it
\* takes, then a few more lines
LongFiles ==
    { [open |-> TRUE, lines |-> [i \in 1..(MaxBulkRequest - 1) |-> "f1"] \o tail, ends |-> e] :
        tail \in SeqsUpTo({"p1", "garbage"}, MaxTail), e \in {"eof", "error"} }

\* files of n passed tests, each with a case number of its own, from the
\* highest number down or from 1 up: a few lines, or about as many as a bulk
\* request takes
UniqueFiles ==
    { [open |-> TRUE, lines |-> [i \in 1..n |-> UniqueRaw(IF down THEN n + 1 - i ELSE i)],
       ends |-> "eof"] :
        n \in (0..MaxLines) \cup ((MaxBulkRequest - 1)..(MaxBulkRequest + MaxTail - 1)),
        down \in BOOLEAN }

NoFile == [open |-> FALSE, lines |-> <<>>, ends |-> "eof"]

-----------------------------------------------------------------------------
(* The answers of the Qase API                                             *)

\* an int64 that is not negative, in two parts: its value is
\* hi * 2^31 + lo, with 0 <= lo < 2^31
Int64(hi, lo) == [hi |-> hi, lo |-> lo]

\* int32(v): the low 32 bits of v, read as a signed number
Int32(v) == IF v.hi % 2 = 0 THEN v.lo ELSE (v.lo - 2147483647) - 1

\* err: the client returned an error; http: whether it returned a response
\* at all; code: the HTTP status; status: the Status member of the body;
\* id: Result.Id of the body
Responses ==
    { [err |-> "error", http |-> h, code |-> 0, status |-> FALSE, id |-> Int64(0, 0)] :
        h \in BOOLEAN }
    \cup { [err |-> Nil, http |-> TRUE, code |-> 201, status |-> TRUE, id |-> Int64(0, 0)],
           [err |-> Nil, http |-> TRUE, code |-> 200, status |-> FALSE, id |-> Int64(0, 0)],
           [err |-> Nil, http |-> TRUE, code |-> 200, status |-> TRUE, id |-> Int64(0, 0)] }

\* the answers of CreateRun: those that carry no id, and the answers of
\* success with the id of the run, one below 2^31 and one beyond
IdResponses ==
    { r \in Responses : r.err # Nil \/ r.code # 200 \/ ~r.status }
    \cup { [err |-> Nil, http |-> TRUE, code |-> 200, status |-> TRUE, id |-> i] :
             i \in {Int64(0, 7), Int64(1, 7)} }

-----------------------------------------------------------------------------
(* RunCommand                                                              *)

Init ==
    /\ pc = "RunCommand"
    /\ \/ /\ args = [version |-> FALSE, named |-> TRUE]
          /\ file \in ShortFiles \cup LongFiles \cup UniqueFiles \cup {NoFile}
       \/ /\ args \in [version : BOOLEAN, named : BOOLEAN]
          /\ file = NoFile
    /\ pos = 0
    /\ results = <<>>
    /\ fileErr = Nil
    /\ calls = <<>>
    /\ runId = 0
    /\ testRunResultOutputs = <<>>
    /\ stdout = <<>>
    /\ call = [op |-> "none", arg |-> <<>>, ret |-> Nil]

\* RunCommand up to the call of processFile
Start ==
    /\ pc = "RunCommand"
    /\ IF args.version
       THEN /\ stdout' = Append(stdout, [kind |-> "version"])
            /\ pc' = "done"
       ELSE IF ~args.named
       THEN /\ pc' = "done"
            /\ UNCHANGED stdout
       ELSE /\ pc' = "processFile"
            /\ UNCHANGED stdout
    /\ UNCHANGED <<args, file, pos, results, fileErr, calls, runId, testRunResultOutputs, call>>

\* the batch after the line was processed without error: a mutant that
\* lets the batch grow past the limit before it stops
AppendResultLate(batch, result) ==
    IF result.TestCaseId = 0 THEN [results |-> batch, full |-> FALSE]
    ELSE [results |-> Append(batch, result), full |-> Len(batch) > MaxBulkRequest]

\* a mutant that puts the new result in front
AppendResultFront(batch, result) ==
    IF result.TestCaseId = 0 THEN [results |-> batch, full |-> FALSE]
    ELSE [results |-> <<result>> \o batch, full |-> Len(batch) + 1 = MaxBulkRequest]

\* processFile, the body of the loop after a line was processed without error
AppendResult(batch, result) ==
    IF result.TestCaseId = 0 THEN [results |-> batch, full |-> FALSE]
    ELSE [results |-> Append(batch, result), full |-> Len(batch) + 1 = MaxBulkRequest]

\* a mutant that gives up at the first line that fails
ScanStepBreak(batch, line) ==
    LET r == processLine(line)
    IN  IF r.err # Nil THEN [results |-> batch, stop |-> TRUE, err |-> Nil]
        ELSE LET a == AppendResult(batch, r.result)
             IN  [results |-> a.results, stop |-> a.full,
                  err |-> IF a.full THEN "max bulk request limit reached" ELSE Nil]

\* a mutant that appends whatever processLine returned
ScanStepAppendAll(batch, line) ==
    [results |-> Append(batch, processLine(line).result),
     stop |-> Len(batch) + 1 = MaxBulkRequest,
     err |-> IF Len(batch) + 1 = MaxBulkRequest
             THEN "max bulk request limit reached" ELSE Nil]

\* processFile, one turn of the loop on a line the scanner delivered
ScanStep(batch, line) ==
    LET r == processLine(line)
    IN  IF r.err # Nil THEN [results |-> batch, stop |-> FALSE, err |-> Nil]
        ELSE LET a == AppendResult(batch, r.result)
             IN  [results |-> a.results, stop |-> a.full,
                  err |-> IF a.full THEN "max bulk request limit reached" ELSE Nil]

\* processFile, the loop over lines a..b of the file from state st of the
\* loop, evaluated by halves; st.pos counts the lines the scanner delivered,
\* st.out is what processLine printed
RECURSIVE ScanLines(_, _, _, _)
ScanLines(st, lines, a, b) ==
    IF st.stop \/ a > b THEN st
    ELSE IF a = b
    THEN LET line == JSONOf(lines[a])
             step == ScanStep(st.results, line)
         IN  [results |-> step.results, stop |-> step.stop, err |-> step.err,
              pos |-> a, out |-> st.out \o ElapsedPrints(line)]
    ELSE LET mid == (a + b) \div 2
             first == ScanLines(st, lines, a, mid)
         IN  IF first.stop THEN first ELSE ScanLines(first, lines, mid + 1, b)

\* processFile: what it returns for file f, how many lines it read, what
\* was printed meanwhile
processFile(f) ==
    IF ~f.open
    THEN [results |-> <<>>, err |-> "failed to open file", pos |-> 0, out |-> <<>>]
    ELSE LET st == ScanLines([results |-> <<>>, stop |-> FALSE, err |-> Nil,
                              pos |-> 0, out |-> <<>>],
                             f.lines, 1, Len(f.lines))
         IN  [results |-> st.results,
              err |-> IF st.stop THEN st.err
                      ELSE IF f.ends = "error" THEN "failed to read file" ELSE Nil,
              pos |-> st.pos, out |-> st.out]

\* RunCommand: results, err := processFile(config.Filename)
ProcessFile ==
    /\ pc = "processFile"
    /\ \E r \in {processFile(file)} :
          /\ results' = r.results
          /\ fileErr' = r.err
          /\ pos' = r.pos
          /\ stdout' = stdout \o r.out
    /\ pc' = "returned"
    /\ UNCHANGED <<args, file, calls, runId, testRunResultOutputs, call>>

\* a mutant that goes on after an error
OnErrorContinue(err, next) == next

\* a mutant that goes on with the batch when the limit was reached
OnErrorButLimit(err, next) ==
    IF err # Nil /\ err # "max bulk request limit reached" THEN "fatal" ELSE next

\* RunCommand: if err != nil { log.Fatalf(...) }
OnError(err, next) == IF err # Nil THEN "fatal" ELSE next

CheckProcessFile ==
    /\ pc = "returned"
    /\ pc' = OnError(fileErr, "createNewRun")
    /\ UNCHANGED <<args, file, pos, results, fileErr, calls, runId, testRunResultOutputs,
                   stdout, call>>

\* a mutant that takes an empty batch for an error
createNewRunNonEmpty(batch, resp) ==
    [req |-> [api |-> "CreateRun", runId |-> 0,
              cases |-> [i \in 1..Len(batch) |-> batch[i].TestCaseId], results |-> <<>>],
     runId |-> IF batch # <<>> /\ resp.err = Nil /\ resp.code = 200 THEN Int32(resp.id) ELSE 0,
     err |-> IF batch = <<>> THEN "no results"
             ELSE IF resp.err # Nil \/ resp.code # 200 THEN "failed to create test run"
             ELSE Nil]

\* createNewRun: the request it sends, and what it returns on answer resp
createNewRun(batch, resp) ==
    LET caseIds == [i \in 1..Len(batch) |-> batch[i].TestCaseId]
        req == [api |-> "CreateRun", runId |-> 0, cases |-> caseIds, results |-> <<>>]
    IN  IF resp.err # Nil
        THEN [req |-> req, runId |-> 0, err |-> "failed to create test run"]
        ELSE IF resp.code # 200
        THEN [req |-> req, runId |-> 0, err |-> "failed to create test run, status code"]
        ELSE [req |-> req, runId |-> Int32(resp.id), err |-> Nil]

\* a mutant that sends the results last first
createTestRunResultsReversed(id, batch, resp) ==
    LET n == Len(batch)
        outs == [i \in 1..n |-> [TestCaseId |-> batch[n + 1 - i].TestCaseId,
                                 Status |-> batch[n + 1 - i].Status]]
        req == [api |-> "CreateResultBulk", runId |-> id, cases |-> <<>>,
                results |-> [i \in 1..n |->
                                [CaseId |-> batch[n + 1 - i].TestCaseId,
                                 Status |-> batch[n + 1 - i].Status,
                                 TimeMs |-> batch[n + 1 - i].TimeMs,
                                 Comment |-> <<>>]]]
    IN  [req |-> req, outputs |-> outs, panic |-> FALSE,
         err |-> IF resp.err # Nil \/ resp.code # 200 \/ ~resp.status
                 THEN "failed to create test run results" ELSE Nil]

\* createTestRunResults: the request it sends, and what it returns on answer
\* resp; it reads the body of the response when the client returned an error,
\* which is a nil dereference when there is no response
createTestRunResults(id, batch, resp) ==
    LET outs == [i \in 1..Len(batch) |->
                    [TestCaseId |-> batch[i].TestCaseId, Status |-> batch[i].Status]]
        qaseResults ==
            [i \in 1..Len(batch) |->
                [CaseId  |-> batch[i].TestCaseId,
                 Status  |-> batch[i].Status,
                 TimeMs  |-> batch[i].TimeMs,
                 Comment |-> IF batch[i].Package # ""
                             THEN <<"Package: ", batch[i].Package>> ELSE <<>>]]
        req == [api |-> "CreateResultBulk", runId |-> id, cases |-> <<>>,
                results |-> qaseResults]
    IN  IF resp.err # Nil
        THEN [req |-> req, outputs |-> outs, panic |-> ~resp.http,
              err |-> "failed to create test run results"]
        ELSE IF resp.code # 200
        THEN [req |-> req, outputs |-> outs, panic |-> FALSE,
              err |-> "failed to create test run results, status code"]
        ELSE IF ~resp.status
        THEN [req |-> req, outputs |-> outs, panic |-> FALSE,
              err |-> "failed to create test run results, status false"]
        ELSE [req |-> req, outputs |-> outs, panic |-> FALSE, err |-> Nil]

\* a mutant that does not read the status flag of the answer
completeRunAnyStatus(id, resp) ==
    [req |-> [api |-> "CompleteRun", runId |-> id, cases |-> <<>>, results |-> <<>>],
     err |-> IF resp.err # Nil \/ resp.code # 200 THEN "failed to complete test run" ELSE Nil]

\* completeRun: the request it sends, and what it returns on answer resp
completeRun(id, resp) ==
    LET req == [api |-> "CompleteRun", runId |-> id, cases |-> <<>>, results |-> <<>>]
    IN  IF resp.err # Nil
        THEN [req |-> req, err |-> "failed to complete test run"]
        ELSE IF resp.code # 200
        THEN [req |-> req, err |-> "failed to complete test run, status code"]
        ELSE IF ~resp.status
        THEN [req |-> req, err |-> "failed to complete test run, status false"]
        ELSE [req |-> req, err |-> Nil]

\* createOutput
createOutput(id, outputs) ==
    [RunId |-> id,
     TestRuns |-> SelectSeq(outputs, LAMBDA o : o.TestCaseId # 0)]

CreateNewRun ==
    /\ pc = "createNewRun"
    /\ \E resp \in IdResponses :
          LET r == createNewRun(results, resp)
          IN  /\ calls' = Append(calls, [req |-> r.req, resp |-> resp])
              /\ runId' = r.runId
              /\ pc' = OnError(r.err, "createTestRunResults")
    /\ UNCHANGED <<args, file, pos, results, fileErr, testRunResultOutputs, stdout, call>>

CreateTestRunResults ==
    /\ pc = "createTestRunResults"
    /\ \E resp \in Responses :
          LET r == createTestRunResults(runId, results, resp)
          IN  /\ calls' = Append(calls, [req |-> r.req, resp |-> resp])
              /\ IF r.panic
                 THEN /\ pc' = "panic"
                      /\ UNCHANGED testRunResultOutputs
                 ELSE /\ pc' = OnError(r.err, "completeRun")
                      /\ testRunResultOutputs' = r.outputs
    /\ UNCHANGED <<args, file, pos, results, fileErr, runId, stdout, call>>

CompleteRun ==
    /\ pc = "completeRun"
    /\ \E resp \in Responses :
          LET r == completeRun(runId, resp)
          IN  /\ calls' = Append(calls, [req |-> r.req, resp |-> resp])
              /\ pc' = OnError(r.err, "createOutput")
    /\ UNCHANGED <<args, file, pos, results, fileErr, runId, testRunResultOutputs, stdout, call>>

\* createOutput and printOutput
PrintOutput ==
    /\ pc = "createOutput"
    /\ stdout' = Append(stdout, [kind |-> "report",
                                 output |-> createOutput(runId, testRunResultOutputs)])
    /\ pc' = "done"
    /\ UNCHANGED <<args, file, pos, results, fileErr, calls, runId, testRunResultOutputs, call>>

Next ==
    \/ Start
    \/ ProcessFile
    \/ CheckProcessFile
    \/ CreateNewRun
    \/ CreateTestRunResults
    \/ CompleteRun
    \/ PrintOutput

Spec == Init /\ [][Next]_vars

-----------------------------------------------------------------------------
(* What the claims speak of, stated without the matcher of the program     *)

\* the positions of name s where a tag QASE-<digit> begins
TagStarts(s) ==
    { i \in 1..Len(s) :
        /\ i + 5 <= Len(s)
        /\ SubSeq(s, i, i + 4) = <<"Q", "A", "S", "E", "-">>
        /\ s[i + 5] \in Digits }

\* the digits that follow the tag prefix at i, up to the first non-digit
GroupDigits(s, i) ==
    LET last == CHOOSE e \in (i + 5)..Len(s) :
                    /\ \A j \in (i + 5)..e : s[j] \in Digits
                    /\ e = Len(s) \/ s[e + 1] \notin Digits
    IN  SubSeq(s, i + 5, last)

\* the number a digit string denotes
NumberOf(d) ==
    LET H[j \in 0..Len(d)] == IF j = 0 THEN 0 ELSE 10 * H[j - 1] + DigitVal(d[j])
    IN  H[Len(d)]

\* the digits of d that carry value: d without its leading zeros
Significant(d) ==
    Len(d) - Cardinality({ j \in 1..Len(d) : \A k \in 1..j : d[k] = "0" })

\* the n-th tag of s, from the left, begins at i
IsNth(s, i, n) == Cardinality({ j \in TagStarts(s) : j <= i }) = n

LastStart(s) == CHOOSE i \in TagStarts(s) : \A j \in TagStarts(s) : j <= i

\* the line decodes into a record that passes validation
Validated(l) ==
    /\ l.kind = "object" /\ l.typed
    /\ "test" \in l.has /\ l.test # <<>>
    /\ "action" \in l.has /\ l.action \in {"pass", "fail"}
    /\ "time" \in l.has => l.time = GoodTime

\* entry e carries what record l says, whatever its identifier is
CarriesRecord(e, l) ==
    /\ e.Status = (IF l.action = "pass" THEN "passed" ELSE "failed")
    /\ e.Package = (IF "package" \in l.has THEN l.package ELSE "")
    /\ e.Time = (IF "time" \in l.has THEN [set |-> TRUE, unix |-> GoodTimeUnix, zone |-> 0]
                                     ELSE [set |-> FALSE, unix |-> 0, zone |-> 0])
    /\ "elapsed" \notin l.has => e.TimeMs = 0
    /\ "elapsed" \in l.has =>
          /\ e.TimeMs * 1000 <= l.elapsed
          /\ l.elapsed < (e.TimeMs + 1) * 1000

-----------------------------------------------------------------------------
(* Claims                                                                  *)

C3_LastTagNilError ==
    call.op = "ParseQaseId"
    => /\ call.ret.err = Nil
       /\ TagStarts(call.arg) = {} => call.ret.id = 0
       /\ TagStarts(call.arg) # {} =>
             call.ret.id = NumberOf(GroupDigits(call.arg, LastStart(call.arg)))

\* C3 amended: ParseQaseId returns 0 with a nil error when the name has no
\* tag; the value of the last tag with a nil error when that tag's digit
\* group is within the range of int; 0 with an error when the digit group of
\* the last tag is beyond the range of int.
C3_LastTagOrRangeError ==
    call.op = "ParseQaseId"
    => /\ TagStarts(call.arg) = {} => call.ret = [id |-> 0, err |-> Nil]
       /\ TagStarts(call.arg) # {} =>
             LET d == GroupDigits(call.arg, LastStart(call.arg))
             IN  /\ Significant(d) < Len(MaxIntDigits) =>
                        call.ret = [id |-> NumberOf(d), err |-> Nil]
                 /\ Significant(d) > Len(MaxIntDigits) =>
                        call.ret.id = 0 /\ call.ret.err # Nil

C3_Witness ==
    /\ call.op = "ParseQaseId"
    /\ Cardinality(TagStarts(call.arg)) = 3
    /\ 1 \in TagStarts(call.arg)
    /\ NumberOf(GroupDigits(call.arg, 1)) = 1
    /\ call.ret = [id |-> 23, err |-> Nil]

C5_BadLineIsError ==
    (call.op \in {"processLine", "processLineWithMultipleId"}
        /\ \/ call.arg.kind # "object" \/ ~call.arg.typed
           \/ "test" \notin call.arg.has \/ call.arg.test = <<>>
           \/ "action" \notin call.arg.has \/ call.arg.action \notin {"pass", "fail"})
    => /\ call.ret.err # Nil
       /\ call.op = "processLineWithMultipleId" => call.ret.results = <<>>

C5_Witness ==
    /\ call.op = "processLine"
    /\ call.arg.kind = "object" /\ call.arg.typed
    /\ call.arg.test = Tag(<<"1">>)
    /\ call.arg.action = "skip"
    /\ call.ret.err = "unknown action"

-----------------------------------------------------------------------------
(* Claims about the run                                                    *)

\* the lines the scanner has delivered so far
Read == SubSeq(file.lines, 1, pos)

\* the line is validated and its last tag denotes a case id: a positive
\* number within the range of int
GoodLine(l) ==
    /\ Validated(l)
    /\ TagStarts(l.test) # {}
    /\ Significant(GroupDigits(l.test, LastStart(l.test))) < Len(MaxIntDigits)
    /\ NumberOf(GroupDigits(l.test, LastStart(l.test))) # 0

LastTagValue(l) == NumberOf(GroupDigits(l.test, LastStart(l.test)))

\* the lines read that are validated, and those among them that have a case id
ValidatedRead == SelectSeq(Read, LAMBDA raw : Validated(JSONOf(raw)))
GoodRead == SelectSeq(ValidatedRead, LAMBDA raw : GoodLine(JSONOf(raw)))

Statuses == {"passed", "failed"}

\* processFile has just returned, for a file it could open
Returned == file.open /\ pc = "returned"

\* C6: an entry made from a record has status "passed" exactly if the action
\* of the record is "pass", and "failed" exactly if it is "fail"; the batch,
\* the results submitted and the output hold no other status.
C6_StatusFromAction ==
    /\ \A i \in 1..Len(results) : results[i].Status \in Statuses
    /\ \A c \in 1..Len(calls) : \A i \in 1..Len(calls[c].req.results) :
          calls[c].req.results[i].Status \in Statuses
    /\ \A o \in 1..Len(stdout) :
          stdout[o].kind = "report" =>
             \A i \in 1..Len(stdout[o].output.TestRuns) :
                stdout[o].output.TestRuns[i].Status \in Statuses
    /\ Returned =>
          LET good == GoodRead
          IN  /\ Len(results) = Len(good)
              /\ \A i \in 1..Len(results) :
                    /\ results[i].Status = "passed" <=> JSONOf(good[i]).action = "pass"
                    /\ results[i].Status = "failed" <=> JSONOf(good[i]).action = "fail"

C6_Witness ==
    /\ pc = "done"
    /\ file.lines = <<"f1", "p1">>
    /\ Len(stdout[Len(stdout)].output.TestRuns) = 2
    /\ stdout[Len(stdout)].output.TestRuns[1].Status = "failed"
    /\ stdout[Len(stdout)].output.TestRuns[2].Status = "passed"

\* C7: the batch never holds more than 2000 entries; when it holds 2000,
\* whether or not lines remain, processFile has returned the 2000 entries
\* with the error of the limit, and the last line read is the one that gave
\* the 2000th entry: no line after it was read or added.
C7_BatchCapped ==
    /\ Len(results) <= 2000
    /\ Len(results) = 2000 =>
          /\ fileErr = "max bulk request limit reached"
          /\ pc \in {"returned", "fatal"}
          /\ pos <= Len(file.lines)
          /\ GoodLine(JSONOf(file.lines[pos]))
          /\ pc = "returned" => Len(GoodRead) = 2000
    /\ fileErr = "max bulk request limit reached" => Len(results) = 2000

C7_Witness ==
    /\ pc = "fatal"
    /\ Len(results) = 2000
    /\ pos + 1 = Len(file.lines)
    /\ fileErr = "max bulk request limit reached"

\* C7, the other case: the line that fills the batch is the last of the file
C7_WitnessAtEnd ==
    /\ pc = "fatal"
    /\ Len(results) = 2000
    /\ pos = Len(file.lines)
    /\ fileErr = "max bulk request limit reached"

\* C8: a line whose processing fails (no JSON object, no test name, unknown
\* action, malformed timestamp) does not end the reading and gives the run
\* no error: short of the limit every line of the file is read, and the only
\* error is that of a failed read; the batch processFile returns is the batch
\* of the lines read without the failing ones: one entry, in order, for each
\* of them that has a case id.
C8_FailingLinesSkipped ==
    Returned =>
       /\ Len(results) < 2000 =>
             /\ pos = Len(file.lines)
             /\ fileErr = (IF file.ends = "error" THEN "failed to read file" ELSE Nil)
       /\ LET good == GoodRead
          IN  /\ Len(results) = Len(good)
              /\ \A i \in 1..Len(results) :
                    /\ results[i].TestCaseId = LastTagValue(JSONOf(good[i]))
                    /\ CarriesRecord(results[i], JSONOf(good[i]))

C8_Witness ==
    /\ pc = "returned"
    /\ fileErr = Nil
    /\ file.lines = <<"p1", "skip1", "f1">>
    /\ Len(results) = 2
    /\ results[2].Status = "failed"

\* the identifier and the status of each entry of a sequence
Pairs(entries) ==
    [i \in 1..Len(entries) |-> <<entries[i].TestCaseId, entries[i].Status>>]

\* C9: the entries of the batch, the case ids given to CreateRun, the results
\* given to CreateResultBulk and the pairs of the output are all in the order
\* in which their lines were read (a line gives at most one entry), and
\* lines with the same identifier give an entry each.
C9_OrderPreserved ==
    /\ Returned =>
          LET good == GoodRead
          IN  Pairs(results) =
                 [i \in 1..Len(good) |->
                     <<LastTagValue(JSONOf(good[i])),
                       IF JSONOf(good[i]).action = "pass" THEN "passed" ELSE "failed">>]
    /\ \A c \in 1..Len(calls) :
          /\ calls[c].req.api = "CreateRun" =>
                calls[c].req.cases = [i \in 1..Len(results) |-> results[i].TestCaseId]
          /\ calls[c].req.api = "CreateResultBulk" =>
                [i \in 1..Len(calls[c].req.results) |->
                    <<calls[c].req.results[i].CaseId, calls[c].req.results[i].Status>>]
                = Pairs(results)
    /\ \A o \in 1..Len(stdout) :
          stdout[o].kind = "report" => Pairs(stdout[o].output.TestRuns) = Pairs(results)

C9_Witness ==
    /\ pc = "done"
    /\ file.lines = <<"p1", "p12", "f1">>
    /\ Pairs(stdout[Len(stdout)].output.TestRuns)
          = << <<1, "passed">>, <<2, "passed">>, <<1, "failed">> >>

\* the answer is a failure: an error, an HTTP status other than 200 or, for
\* the two calls whose answer the program reads it from, a false status flag
Failed(c) ==
    \/ c.resp.err # Nil
    \/ c.resp.code # 200
    \/ c.req.api # "CreateRun" /\ ~c.resp.status

\* C10: CreateRun, CreateResultBulk and CompleteRun are called at most once
\* each and in this order, each only after the one before it succeeded; after
\* a failure the run is aborted and no further call is made: no retry, no
\* completion and no removal of the run created.
C10_CallsInOrderNoRetry ==
    /\ Len(calls) <= 3
    /\ \A i \in 1..Len(calls) :
          /\ calls[i].req.api = <<"CreateRun", "CreateResultBulk", "CompleteRun">>[i]
          /\ i < Len(calls) => ~Failed(calls[i])
          /\ i > 1 => calls[i].req.runId = Int32(calls[1].resp.id)
    /\ (Len(calls) > 0 /\ Failed(calls[Len(calls)])) => pc \in {"fatal", "panic"}

C10_Witness ==
    /\ pc = "fatal"
    /\ Len(calls) = 2
    /\ ~Failed(calls[1])
    /\ Failed(calls[2])
    /\ Len(calls[2].req.results) = 2

\* the run has ended: by returning, by log.Fatalf, or by a panic
Ended == pc \in {"done", "fatal", "panic"}

\* every call made to the Qase API was answered with success
Succeeded == \A c \in 1..Len(calls) : ~Failed(calls[c])

\* f is read to its end and every line of it is a valid record of a passed
\* test with exactly one tag, a case id, and no two lines have the same id
UniquePass(f) ==
    /\ f.open
    /\ f.ends = "eof"
    /\ \A i \in 1..Len(f.lines) :
          /\ JSONOf(f.lines[i]).action = "pass"
          /\ GoodLine(JSONOf(f.lines[i]))
          /\ Cardinality(TagStarts(JSONOf(f.lines[i]).test)) = 1
    /\ Cardinality({ LastTagValue(JSONOf(f.lines[i])) : i \in 1..Len(f.lines) })
          = Len(f.lines)

\* the identifier of each line of f with the status of a passed test
PassedPairs(f) ==
    [i \in 1..Len(f.lines) |-> <<LastTagValue(JSONOf(f.lines[i])), "passed">>]

\* the reports on standard output
Reports == SelectSeq(stdout, LAMBDA o : o.kind = "report")

\* the run of N unique passed tests gave N entries and N pairs, in input order
RoundTrip ==
    /\ pc = "done"
    /\ Len(results) = Len(file.lines)
    /\ Pairs(results) = PassedPairs(file)
    /\ Len(Reports) = 1
    /\ Len(Reports[1].output.TestRuns) = Len(file.lines)
    /\ Pairs(Reports[1].output.TestRuns) = PassedPairs(file)

\* C11 as stated: for every N, a run on N valid records of passed tests, each
\* with one identifier of its own, with every call to the API succeeding,
\* ends with a batch of N entries and an output of N pairs, in input order.
C11_RoundTripEveryN ==
    (Ended /\ Succeeded /\ UniquePass(file)) => RoundTrip

\* C11 amended: the same for every N below 2000; from 2000 records on, the
\* run ends in log.Fatalf with a batch of 2000 entries, no call to the API
\* and no output.
C11_RoundTripBelowCap ==
    (Ended /\ Succeeded /\ UniquePass(file)) =>
       IF Len(file.lines) < 2000 THEN RoundTrip
       ELSE /\ pc = "fatal"
            /\ Len(results) = 2000
            /\ calls = <<>>
            /\ Reports = <<>>

C11_Witness ==
    /\ pc = "done"
    /\ Succeeded
    /\ UniquePass(file)
    /\ Len(file.lines) = 3
    /\ Pairs(Reports[1].output.TestRuns)
          = << <<3, "passed">>, <<2, "passed">>, <<1, "passed">> >>

\* C11, a run on as many records as the bulk request takes less one
C11_WitnessLong ==
    /\ pc = "done"
    /\ Succeeded
    /\ UniquePass(file)
    /\ Len(file.lines) = 1999
    /\ Len(Reports[1].output.TestRuns) = 1999

\* the identifier and the status of each result of a bulk request
SentPairs(req) ==
    [i \in 1..Len(req.results) |-> <<req.results[i].CaseId, req.results[i].Status>>]

\* the output object is printed at most once per run, and only after
\* processFile returned without error and CreateRun, CreateResultBulk and
\* CompleteRun were each called and succeeded; its test_runs are the pairs of
\* the batch that was submitted; a run that ends in log.Fatalf or in a panic
\* prints no output object
OutputOnceOnSuccess ==
    /\ Len(Reports) <= 1
    /\ Len(Reports) = 1 =>
          /\ pc = "done"
          /\ file.open /\ fileErr = Nil
          /\ Len(calls) = 3
          /\ Succeeded
          /\ stdout[Len(stdout)] = Reports[1]
          /\ Pairs(Reports[1].output.TestRuns) = SentPairs(calls[2].req)
          /\ Pairs(Reports[1].output.TestRuns) = Pairs(results)
    /\ pc \in {"fatal", "panic"} => Reports = <<>>
    /\ (pc = "done" /\ args.named /\ ~args.version) => Len(Reports) = 1

\* C12 as stated: the output object is printed at most once, only after input
\* processing and the three calls succeeded, never on a fatal condition; its
\* test_runs are the pairs of the submitted batch and its run_id is the id
\* in the answer of CreateRun.
C12_OutputOnceWithRunId ==
    /\ OutputOnceOnSuccess
    /\ Len(Reports) = 1 =>
          calls[1].resp.id = Int64(0, Reports[1].output.RunId)

\* C12, what the run does: as stated, but the run_id is the low 32 bits of
\* the id in the answer of CreateRun, read as a signed number; it is that id
\* only when the id is below 2^31.
C12_OutputOnceWithNarrowedRunId ==
    /\ OutputOnceOnSuccess
    /\ Len(Reports) = 1 =>
          /\ Reports[1].output.RunId = Int32(calls[1].resp.id)
          /\ calls[1].resp.id.hi = 0 =>
                calls[1].resp.id = Int64(0, Reports[1].output.RunId)

C12_Witness ==
    /\ pc = "done"
    /\ Len(Reports) = 1
    /\ Reports[1].output.RunId = 7
    /\ calls[1].resp.id = Int64(0, 7)
    /\ Len(calls) = 3
    /\ Pairs(Reports[1].output.TestRuns) = << <<1, "failed">>, <<2, "passed">> >>

\* C12, the run whose run_id is not the id CreateRun answered
C12_WitnessNarrowed ==
    /\ pc = "done"
    /\ Len(Reports) = 1
    /\ calls[1].resp.id = Int64(1, 7)
    /\ Reports[1].output.RunId < 0

\* C13: in every state of the run, every entry of the batch has an identifier
\* greater than 0, also when test names hold the tag QASE-0; so has every
\* case id given to CreateRun, every result given to CreateResultBulk and
\* every test_case_id of the output.
C13_IdentifiersPositive ==
    /\ \A i \in 1..Len(results) : results[i].TestCaseId > 0
    /\ \A i \in 1..Len(testRunResultOutputs) : testRunResultOutputs[i].TestCaseId > 0
    /\ \A c \in 1..Len(calls) :
          /\ \A i \in 1..Len(calls[c].req.cases) : calls[c].req.cases[i] > 0
          /\ \A i \in 1..Len(calls[c].req.results) : calls[c].req.results[i].CaseId > 0
    /\ \A o \in 1..Len(Reports) :
          \A i \in 1..Len(Reports[o].output.TestRuns) :
             Reports[o].output.TestRuns[i].TestCaseId > 0

C13_Witness ==
    /\ pc = "done"
    /\ file.lines = <<"zero", "p1", "zero">>
    /\ Len(results) = 1
    /\ calls[1].req.cases = <<1>>
    /\ Len(Reports) = 1
    /\ Pairs(Reports[1].output.TestRuns) = << <<1, "passed">> >>

\* digit string d denotes a number beyond 2^63 - 1, the greatest int
BeyondInt(d) ==
    \/ Significant(d) > 19
    \/ /\ Significant(d) = 19
       /\ LET t == SubSeq(d, Len(d) - 18, Len(d))
          IN  \E k \in 1..19 :
                 /\ \A j \in 1..(k - 1) : t[j] = MaxIntDigits[j]
                 /\ DigitVal(t[k]) > DigitVal(MaxIntDigits[k])

\* C14 as stated: the conversion of a matched digit group never fails;
\* ParseQaseId returns a nil error for every name, also when the digit group
\* is longer than an int can hold.
C14_NeverConversionError ==
    call.op = "ParseQaseId" => call.ret.err = Nil

\* C14 amended: the conversion fails exactly when the digit group of the last
\* tag denotes a number beyond the range of int; ParseQaseId then returns 0
\* and an error, and for every other name it returns a nil error.
C14_ConversionErrorIffBeyondInt ==
    call.op = "ParseQaseId" =>
       /\ call.ret.err # Nil <=>
             /\ TagStarts(call.arg) # {}
             /\ BeyondInt(GroupDigits(call.arg, LastStart(call.arg)))
       /\ call.ret.err # Nil => call.ret.id = 0

C14_Witness ==
    /\ call.op = "ParseQaseId"
    /\ call.arg = Tag(<<"1">>) \o Tag(<<"0">> \o OverMaxDigits)
    /\ call.ret = [id |-> 0, err |-> "failed to parse Qase ID"]

\* C14, a name whose tag beyond int is not the last: no error
C14_WitnessNotLast ==
    /\ call.op = "ParseQaseId"
    /\ call.arg = Tag(HugeDigits) \o Tag(<<"2">>)
    /\ call.ret = [id |-> 2, err |-> Nil]

\* RunCommand has called processFile and processFile has returned
Processed == pc \notin {"RunCommand", "processFile"} /\ args.named /\ ~args.version

\* C15: when processFile ends with an error (the file cannot be opened, a
\* read fails, or the batch reached 2000 entries) the run is aborted before
\* any call to the API: CreateRun, CreateResultBulk and CompleteRun are not
\* called, the batch read so far is not submitted and nothing is printed as
\* output; and each of the three conditions does end processFile with an
\* error.
C15_InputErrorNoCall ==
    /\ fileErr # Nil =>
          /\ pc \in {"returned", "fatal"}
          /\ calls = <<>>
          /\ testRunResultOutputs = <<>>
          /\ Reports = <<>>
    /\ Processed =>
          /\ ~file.open => fileErr = "failed to open file"
          /\ (file.open /\ Len(results) = 2000) => fileErr = "max bulk request limit reached"
          /\ (file.open /\ Len(results) < 2000 /\ file.ends = "error") =>
                fileErr = "failed to read file"
          /\ (file.open /\ Len(results) < 2000 /\ file.ends = "eof") => fileErr = Nil
    /\ calls # <<>> => fileErr = Nil

C15_Witness ==
    /\ pc = "fatal"
    /\ fileErr = "failed to read file"
    /\ Len(results) = 2
    /\ calls = <<>>

\* C15, the other two conditions
C15_WitnessOpen ==
    /\ pc = "fatal"
    /\ fileErr = "failed to open file"
    /\ calls = <<>>

C15_WitnessLimit ==
    /\ pc = "fatal"
    /\ fileErr = "max bulk request limit reached"
    /\ file.ends = "eof"
    /\ Len(results) = 2000
    /\ calls = <<>>

\* the identifier of each entry of the batch
BatchIds == [i \in 1..Len(results) |-> results[i].TestCaseId]

\* C16: an input that gives no entry (an empty file, or lines that all fail
\* or have no case id) is no error: CreateRun is called with an empty list of
\* cases, CreateResultBulk with an empty list of results, then CompleteRun,
\* and when they succeed the output has an empty test_runs.  Whatever the
\* batch, the cases given to CreateRun and the results given to
\* CreateResultBulk have the length of the batch and its identifiers in order.
C16_EmptyBatchSubmitted ==
    /\ \A c \in 1..Len(calls) :
          /\ calls[c].req.api = "CreateRun" => calls[c].req.cases = BatchIds
          /\ calls[c].req.api = "CreateResultBulk" =>
                /\ Len(calls[c].req.results) = Len(results)
                /\ [i \in 1..Len(results) |-> calls[c].req.results[i].CaseId] = BatchIds
    /\ (Returned /\ file.ends = "eof" /\ GoodRead = <<>>) =>
          results = <<>> /\ fileErr = Nil
    /\ (Processed /\ pc # "returned" /\ results = <<>> /\ fileErr = Nil) =>
          /\ Len(calls) >= 1 => calls[1].req.cases = <<>>
          /\ Len(calls) >= 2 => calls[2].req.results = <<>>
          /\ (Ended /\ Succeeded) =>
                /\ pc = "done"
                /\ Len(calls) = 3
                /\ calls[3].req.api = "CompleteRun"
                /\ Len(Reports) = 1
                /\ Reports[1].output.TestRuns = <<>>

C16_Witness ==
    /\ pc = "done"
    /\ file.lines = <<"garbage", "noid", "zero">>
    /\ results = <<>>
    /\ Len(calls) = 3
    /\ calls[1].req.cases = <<>>
    /\ calls[2].req.results = <<>>
    /\ Reports[1].output.TestRuns = <<>>

\* C16, the empty file
C16_WitnessEmptyFile ==
    /\ pc = "done"
    /\ file.open
    /\ file.lines = <<>>
    /\ Len(calls) = 3
    /\ Reports[1].output.TestRuns = <<>>

====
